---------------------------- MODULE Spec2Model ----------------------------
(***************************************************************************)
(* Model of the multi-provider streaming layer of AI-Assistant-Desktop     *)
(* (src/unnamed/part_000, the api library; src/unnamed/part_004, the       *)
(* Electron IPC handler).                                                  *)
(*                                                                         *)
(* Text is modelled by TLA+ strings: Len, \o, SubSeq, Head and Tail act on *)
(* them character by character, as the JavaScript string operations do.    *)
(* A byte stream is a string too, one character per byte; the two bytes of *)
(* the one non-ASCII character used in the streams are written Utf8Lead    *)
(* and Utf8Cont.                                                           *)
(***************************************************************************)
EXTENDS Integers, Sequences, FiniteSets, TLC

(***************************************************************************)
(* JavaScript strings                                                      *)
(***************************************************************************)

\* the characters a..b of s (1-based, inclusive), clipped to the string
Sub(s, a, b) ==
    LET lo == IF a < 1 THEN 1 ELSE a
        hi == IF b > Len(s) THEN Len(s) ELSE b
    IN  IF lo > hi THEN "" ELSE SubSeq(s, lo, hi)

\* s[i] (1-based), "" when i is out of range
Ch(s, i) == Sub(s, i, i)

\* s.substring(from, to) with 0-based from (inclusive) and to (exclusive)
Substring(s, from, to) == Sub(s, from + 1, to)

\* s.slice(n) for 0 <= n
Slice(s, n) == Sub(s, n + 1, Len(s))

\* s.startsWith(p)
StartsWith(s, p) == Len(s) >= Len(p) /\ Sub(s, 1, Len(p)) = p

\* the white space String.prototype.trim removes (of the characters modelled)
IsTrimSpace(c) == c \in {" ", "\n", "\r", "\t", "\f"}

RECURSIVE TrimStart(_)
TrimStart(s) == IF s # "" /\ IsTrimSpace(Head(s)) THEN TrimStart(Tail(s)) ELSE s

RECURSIVE TrimEnd(_)
TrimEnd(s) ==
    IF s # "" /\ IsTrimSpace(Ch(s, Len(s))) THEN TrimEnd(Sub(s, 1, Len(s) - 1)) ELSE s

\* s.trim()
Trim(s) == TrimEnd(TrimStart(s))

\* index (1-based) of the first "\n" of s, 0 when there is none
IndexOfNewline(s) ==
    LET at == {j \in 1..Len(s) : SubSeq(s, j, j) = "\n"} IN
    IF at = {} THEN 0 ELSE CHOOSE j \in at : \A k \in at : j <= k

\* s.split('\n'): the pieces between the newlines; never empty (''.split gives [''])
RECURSIVE SplitLines(_)
SplitLines(s) ==
    LET n == IndexOfNewline(s) IN
    IF n = 0 THEN <<s>>
    ELSE <<Sub(s, 1, n - 1)>> \o SplitLines(Sub(s, n + 1, Len(s)))

(***************************************************************************)
(* JavaScript values and JSON.parse                                        *)
(***************************************************************************)

Undefined == [t |-> "undefined"]
JNull     == [t |-> "null"]
JStr(s)   == [t |-> "str", s |-> s]
JNum(n)   == [t |-> "num", n |-> n]
JBool(b)  == [t |-> "bool", b |-> b]
JArr(a)   == [t |-> "arr", a |-> a]
JObj(m)   == [t |-> "obj", m |-> m]

\* result of a parsing step: ok, the value, and the index of the next character
POk(v, p) == [ok |-> TRUE, val |-> v, pos |-> p]
PFail     == [ok |-> FALSE, val |-> Undefined, pos |-> 0]

IsJsonWs(c) == c \in {" ", "\n", "\r", "\t"}

RECURSIVE SkipWs(_, _)
SkipWs(s, i) == IF IsJsonWs(Ch(s, i)) THEN SkipWs(s, i + 1) ELSE i

Digits == <<"0", "1", "2", "3", "4", "5", "6", "7", "8", "9">>
IsDigit(c) == \E d \in 1..10 : Digits[d] = c
DigitVal(c) == (CHOOSE d \in 1..10 : Digits[d] = c) - 1

\* the character a JSON escape \e stands for ("" when \e is no escape modelled)
Unescape(e) ==
    CASE e = "\"" -> "\""
      [] e = "\\" -> "\\"
      [] e = "/"  -> "/"
      [] e = "n"  -> "\n"
      [] e = "r"  -> "\r"
      [] e = "t"  -> "\t"
      [] e = "f"  -> "\f"
      [] OTHER    -> ""

\* the body of a string literal, from the character after its opening quote
RECURSIVE ParseStringBody(_, _, _)
ParseStringBody(s, i, acc) ==
    LET c == Ch(s, i) IN
    IF c = "" \/ c \in {"\n", "\r", "\t", "\f"} THEN PFail
    ELSE IF c = "\"" THEN POk(acc, i + 1)
    ELSE IF c = "\\"
         THEN LET u == Unescape(Ch(s, i + 1)) IN
              IF u = "" THEN PFail ELSE ParseStringBody(s, i + 2, acc \o u)
    ELSE ParseStringBody(s, i + 1, acc \o c)

RECURSIVE ParseDigits(_, _, _)
ParseDigits(s, i, acc) ==
    IF IsDigit(Ch(s, i)) THEN ParseDigits(s, i + 1, 10 * acc + DigitVal(Ch(s, i)))
    ELSE POk(acc, i)

\* an integer literal (the numbers of the modelled payloads are integers)
ParseNumber(s, i) ==
    LET neg == Ch(s, i) = "-"
        j   == IF neg THEN i + 1 ELSE i
    IN  IF ~IsDigit(Ch(s, j)) THEN PFail
        ELSE IF Ch(s, j) = "0" /\ IsDigit(Ch(s, j + 1)) THEN PFail
        ELSE LET r == ParseDigits(s, j, 0) IN
             IF Ch(s, r.pos) \in {".", "e", "E"} THEN PFail
             ELSE POk(JNum(IF neg THEN 0 - r.val ELSE r.val), r.pos)

RECURSIVE ParseValue(_, _)
RECURSIVE ParseMembers(_, _, _)
RECURSIVE ParseElements(_, _, _)

\* the members of an object, i at the first character of a key (after white space)
ParseMembers(s, i, acc) ==
    IF Ch(s, i) # "\"" THEN PFail
    ELSE LET k == ParseStringBody(s, i + 1, "") IN
         IF ~k.ok THEN PFail
         ELSE LET c == SkipWs(s, k.pos) IN
              IF Ch(s, c) # ":" THEN PFail
              ELSE LET v == ParseValue(s, c + 1) IN
                   IF ~v.ok THEN PFail
                   ELSE LET m == Append(acc, [k |-> k.val, v |-> v.val])
                            e == SkipWs(s, v.pos)
                        IN  IF Ch(s, e) = "}" THEN POk(JObj(m), e + 1)
                            ELSE IF Ch(s, e) = ","
                                 THEN ParseMembers(s, SkipWs(s, e + 1), m)
                            ELSE PFail

\* the elements of an array, i at the first character of an element
ParseElements(s, i, acc) ==
    LET v == ParseValue(s, i) IN
    IF ~v.ok THEN PFail
    ELSE LET a == Append(acc, v.val)
             e == SkipWs(s, v.pos)
         IN  IF Ch(s, e) = "]" THEN POk(JArr(a), e + 1)
             ELSE IF Ch(s, e) = "," THEN ParseElements(s, e + 1, a)
             ELSE PFail

ParseValue(s, i0) ==
    LET i == SkipWs(s, i0)
        c == Ch(s, i)
    IN  IF c = "{"
        THEN LET j == SkipWs(s, i + 1) IN
             IF Ch(s, j) = "}" THEN POk(JObj(<<>>), j + 1) ELSE ParseMembers(s, j, <<>>)
        ELSE IF c = "["
        THEN LET j == SkipWs(s, i + 1) IN
             IF Ch(s, j) = "]" THEN POk(JArr(<<>>), j + 1) ELSE ParseElements(s, j, <<>>)
        ELSE IF c = "\""
        THEN LET r == ParseStringBody(s, i + 1, "") IN
             IF r.ok THEN POk(JStr(r.val), r.pos) ELSE PFail
        ELSE IF Sub(s, i, i + 3) = "true" THEN POk(JBool(TRUE), i + 4)
        ELSE IF Sub(s, i, i + 4) = "false" THEN POk(JBool(FALSE), i + 5)
        ELSE IF Sub(s, i, i + 3) = "null" THEN POk(JNull, i + 4)
        ELSE ParseNumber(s, i)

\* JSON.parse(s): [ok |-> TRUE, val |-> the value], or ok = FALSE for a SyntaxError
JsonParse(s) ==
    LET r == ParseValue(s, 1) IN
    IF r.ok /\ SkipWs(s, r.pos) = Len(s) + 1 THEN [ok |-> TRUE, val |-> r.val]
    ELSE [ok |-> FALSE, val |-> Undefined]

\* v.key, for a value v that is neither null nor undefined (a duplicate key: the last)
RECURSIVE Member(_, _, _)
Member(m, key, i) ==
    IF i = 0 THEN Undefined
    ELSE IF m[i].k = key THEN m[i].v
    ELSE Member(m, key, i - 1)

Prop(v, key) == IF v.t = "obj" THEN Member(v.m, key, Len(v.m)) ELSE Undefined

IsNullish(v) == v.t \in {"undefined", "null"}

\* v?.key
OptProp(v, key) == IF IsNullish(v) THEN Undefined ELSE Prop(v, key)

\* v?.[0]
OptIndex0(v) ==
    IF v.t = "arr" THEN (IF Len(v.a) > 0 THEN v.a[1] ELSE Undefined)
    ELSE IF v.t = "str" THEN (IF v.s # "" THEN JStr(Ch(v.s, 1)) ELSE Undefined)
    ELSE Undefined

\* the truthiness of a value
Truthy(v) ==
    CASE v.t = "str"  -> v.s # ""
      [] v.t = "num"  -> v.n # 0
      [] v.t = "bool" -> v.b
      [] v.t \in {"arr", "obj"} -> TRUE
      [] OTHER -> FALSE

RECURSIVE NatToString(_)
NatToString(n) == IF n < 10 THEN Digits[n + 1] ELSE NatToString(n \div 10) \o Digits[(n % 10) + 1]

\* '' + v: the text a value contributes to a string concatenation
RECURSIVE JsToString(_)
RECURSIVE JoinElements(_, _)
JsToString(v) ==
    CASE v.t = "str"  -> v.s
      [] v.t = "num"  -> IF v.n < 0 THEN "-" \o NatToString(0 - v.n) ELSE NatToString(v.n)
      [] v.t = "bool" -> IF v.b THEN "true" ELSE "false"
      [] v.t = "obj"  -> "[object Object]"
      [] v.t = "arr"  -> JoinElements(v.a, 1)
      [] v.t = "null" -> "null"
      [] OTHER -> "undefined"
JoinElements(a, i) ==
    IF i > Len(a) THEN ""
    ELSE (IF IsNullish(a[i]) THEN "" ELSE JsToString(a[i]))
         \o (IF i < Len(a) THEN "," \o JoinElements(a, i + 1) ELSE "")

(***************************************************************************)
(* TextDecoder('utf-8').decode(value, {stream: true})                     *)
(***************************************************************************)

\* the bytes 0xC3 and 0xA9 (the encoding of U+00E9) and the character U+00E9
Utf8Lead == "^"
Utf8Cont == "~"
CharE9 == "@"
\* U+FFFD, which replaces an ill-formed byte sequence
Replacement == "?"

\* one byte b into a decoder that has produced `text` and holds back `pending`
Utf8Step(t, b) ==
    IF t.pending # "" /\ b = Utf8Cont
    THEN [text |-> t.text \o CharE9, pending |-> ""]
    ELSE LET text == IF t.pending # "" THEN t.text \o Replacement ELSE t.text IN
         IF b = Utf8Lead THEN [text |-> text, pending |-> b]
         ELSE IF b = Utf8Cont THEN [text |-> text \o Replacement, pending |-> ""]
         ELSE [text |-> text \o b, pending |-> ""]

\* the bytes lo..hi-1 (1-based) of `bytes`, in order, into the decoder
RECURSIVE Utf8Decode(_, _, _, _)
Utf8Decode(t, bytes, lo, hi) ==
    IF lo >= hi THEN t
    ELSE IF hi = lo + 1 THEN Utf8Step(t, SubSeq(bytes, lo, lo))
    ELSE LET mid  == (lo + hi) \div 2
             left == Utf8Decode(t, bytes, lo, mid)
         IN  \* the comparison makes TLC evaluate the first half before the second
             IF left = t THEN Utf8Decode(t, bytes, mid, hi)
             ELSE Utf8Decode(left, bytes, mid, hi)

\* decoder.decode(value, {stream: true}) of a decoder holding the bytes `pend`
Decode(pend, value) ==
    Utf8Decode([text |-> "", pending |-> pend], value, 1, Len(value) + 1)

(***************************************************************************)
(* Delta extraction: the parser callbacks of the adapters                  *)
(***************************************************************************)

\* What a parser call did: text is the fragment returned ("" for null),
\* jsonArg the strings handed to JSON.parse, sentinel whether the payload
\* was the literal [DONE].
Extracted(text, jsonArg, sentinel) ==
    [text |-> text, jsonArg |-> jsonArg, sentinel |-> sentinel]

\* an operand of ?. and of the truthiness tests, as the text it contributes
TextOrNull(v) == IF Truthy(v) THEN JsToString(v) ELSE ""

\* json.choices?.[0]?.delta?.content, then `content || null`
OpenAIContent(json) ==
    TextOrNull(OptProp(OptProp(OptIndex0(Prop(json, "choices")), "delta"), "content"))

\* the try block of the parser of streamOpenAI, r being the outcome of JSON.parse:
\* a SyntaxError, or the TypeError of reading a property of null, gives null
OpenAITry(dataStr, r) ==
    IF ~r.ok \/ IsNullish(r.val) THEN Extracted("", <<dataStr>>, FALSE)
    ELSE Extracted(OpenAIContent(r.val), <<dataStr>>, FALSE)

\* the parser of streamOpenAI
ParseOpenAILine(line) ==
    LET trim == Trim(line) IN
    IF trim = "" \/ ~StartsWith(trim, "data: ") THEN Extracted("", <<>>, FALSE)
    ELSE LET dataStr == Slice(trim, 6) IN
         IF dataStr = "[DONE]" THEN Extracted("", <<>>, TRUE)
         ELSE OpenAITry(dataStr, JsonParse(dataStr))

\* json.type === 'content_block_delta' && json.delta?.text
AnthropicText(json) ==
    IF Prop(json, "type") = JStr("content_block_delta")
    THEN TextOrNull(OptProp(Prop(json, "delta"), "text"))
    ELSE ""

\* the try block of the parser of streamAnthropic
AnthropicTry(dataStr, r) ==
    IF ~r.ok \/ IsNullish(r.val) THEN Extracted("", <<dataStr>>, FALSE)
    ELSE Extracted(AnthropicText(r.val), <<dataStr>>, FALSE)

\* the parser of streamAnthropic
ParseAnthropicLine(line) ==
    LET trim == Trim(line) IN
    IF trim = "" \/ ~StartsWith(trim, "data: ") THEN Extracted("", <<>>, FALSE)
    ELSE AnthropicTry(Slice(trim, 6), JsonParse(Slice(trim, 6)))

\* json.candidates?.[0]?.content?.parts?.[0]?.text, then `if (text)`
GoogleText(json) ==
    TextOrNull(OptProp(OptIndex0(OptProp(OptProp(OptIndex0(
        Prop(json, "candidates")), "content"), "parts")), "text"))

\* the try block of streamGoogle, r being the outcome of JSON.parse
GoogleTry(jsonStr, r) ==
    IF ~r.ok \/ IsNullish(r.val) THEN Extracted("", <<jsonStr>>, FALSE)
    ELSE Extracted(GoogleText(r.val), <<jsonStr>>, FALSE)

ParseGoogleUnit(jsonStr) == GoogleTry(jsonStr, JsonParse(jsonStr))

Parser(adapter, unit) ==
    CASE adapter = "openai"    -> ParseOpenAILine(unit)
      [] adapter = "anthropic" -> ParseAnthropicLine(unit)
      [] OTHER                 -> ParseGoogleUnit(unit)

(***************************************************************************)
(* Frame decoding: readStream and the read loop of streamGoogle            *)
(***************************************************************************)

\* The locals of one streaming adapter run that the loops update: buffer and
\* fullText, with the calls of the sink (sink), the units offered to a parser
\* (units), the strings handed to JSON.parse (jsonArgs) and the number of
\* fragments delivered when the [DONE] sentinel was first decoded (sinkAtDone,
\* -1 before that).
DecodeStart ==
    [buffer |-> "", fullText |-> "", sink |-> <<>>, units |-> <<>>,
     jsonArgs |-> <<>>, sinkAtDone |-> -1]

\* the sink called with the fragments stacked, the newest first
OfferNewestFirst(d, unit, e) ==
    IF e.text # ""
    THEN [d EXCEPT !.units = Append(@, unit),
                   !.jsonArgs = @ \o e.jsonArg,
                   !.sinkAtDone = IF e.sentinel /\ @ = -1 THEN Len(d.sink) ELSE @,
                   !.fullText = @ \o e.text,
                   !.sink = <<e.text>> \o @]
    ELSE [d EXCEPT !.units = Append(@, unit),
                   !.jsonArgs = @ \o e.jsonArg,
                   !.sinkAtDone = IF e.sentinel /\ @ = -1 THEN Len(d.sink) ELSE @]

\* `if (parsed) onChunk(parsed)` for the result e of the parser on a unit
Offer(d, unit, e) ==
    IF e.text # ""
    THEN [d EXCEPT !.units = Append(@, unit),
                   !.jsonArgs = @ \o e.jsonArg,
                   !.sinkAtDone = IF e.sentinel /\ @ = -1 THEN Len(d.sink) ELSE @,
                   !.fullText = @ \o e.text,
                   !.sink = Append(@, e.text)]
    ELSE [d EXCEPT !.units = Append(@, unit),
                   !.jsonArgs = @ \o e.jsonArg,
                   !.sinkAtDone = IF e.sentinel /\ @ = -1 THEN Len(d.sink) ELSE @]

\* parser(unit), then `if (parsed) onChunk(parsed)`
ProcessUnit(adapter, d, unit) == Offer(d, unit, Parser(adapter, unit))

RECURSIVE ProcessLines(_, _, _, _)
RECURSIVE ProcessLinesStopAtBad(_, _, _, _)

\* the for loop left at the first line whose JSON.parse throws
ProcessLinesStopAtBad(adapter, d, lines, i) ==
    IF i > Len(lines) THEN d
    ELSE IF Parser(adapter, lines[i]).jsonArg # <<>>
            /\ ~JsonParse(Parser(adapter, lines[i]).jsonArg[1]).ok
    THEN d
    ELSE ProcessLinesStopAtBad(adapter, ProcessUnit(adapter, d, lines[i]), lines, i + 1)

\* for (const line of lines) { ... }
ProcessLines(adapter, d, lines, i) ==
    IF i > Len(lines) THEN d
    ELSE ProcessLines(adapter, ProcessUnit(adapter, d, lines[i]), lines, i + 1)

\* readStream with the pieces of a chunk all taken for lines and no tail kept
ReadStreamChunkNoTail(adapter, d, text) ==
    ProcessLines(adapter, [d EXCEPT !.buffer = ""], SplitLines(d.buffer \o text), 1)

\* readStream, the loop body after decoding: split, keep the last piece, parse the rest
ReadStreamChunk(adapter, d, text) ==
    LET lines == SplitLines(d.buffer \o text)
        n     == Len(lines)
    IN  ProcessLines(adapter, [d EXCEPT !.buffer = lines[n]], SubSeq(lines, 1, n - 1), 1)

\* readStream returning after the loop with the tail left alone
ReadStreamEndNoFlush(adapter, d) == d

\* readStream after the loop: `if (buffer) { ... }`
ReadStreamEnd(adapter, d) ==
    IF d.buffer # "" THEN ProcessUnit(adapter, d, d.buffer) ELSE d

\* the body of the for loop with `start = i` on every open brace
ScanStepInnerStart(st, i) ==
    LET char == SubSeq(st.d.buffer, i + 1, i + 1) IN
    IF char = "{"
    THEN [st EXCEPT !.braceCount = @ + 1, !.start = i]
    ELSE IF char = "}"
    THEN IF st.braceCount - 1 = 0 /\ st.start # -1
         THEN [d |-> ProcessUnit("google", st.d, Substring(st.d.buffer, st.start, i + 1)),
               braceCount |-> 0, start |-> -1, consumedUpTo |-> i + 1]
         ELSE [st EXCEPT !.braceCount = @ - 1]
    ELSE st

\* streamGoogle, the body of the for loop at index i (0-based); st holds the decode
\* state d and the locals braceCount, start and consumedUpTo
ScanStep(st, i) ==
    LET char == SubSeq(st.d.buffer, i + 1, i + 1) IN
    IF char = "{"
    THEN [st EXCEPT !.braceCount = @ + 1,
                    !.start = IF st.braceCount = 0 THEN i ELSE @]
    ELSE IF char = "}"
    THEN IF st.braceCount - 1 = 0 /\ st.start # -1
         THEN [d |-> ProcessUnit("google", st.d, Substring(st.d.buffer, st.start, i + 1)),
               braceCount |-> 0, start |-> -1, consumedUpTo |-> i + 1]
         ELSE [st EXCEPT !.braceCount = @ - 1]
    ELSE st

\* the for loop over the indices lo..hi-1, in order
RECURSIVE ScanBraces(_, _, _)
ScanBraces(st, lo, hi) ==
    IF lo >= hi THEN st
    ELSE IF hi = lo + 1 THEN ScanStep(st, lo)
    ELSE LET mid  == (lo + hi) \div 2
             left == ScanBraces(st, lo, mid)
         IN  \* the comparison makes TLC evaluate the first half before the second
             IF left = st THEN ScanBraces(st, mid, hi)
             ELSE ScanBraces(left, mid, hi)

\* the buffer emptied after every chunk instead
DropWholeBuffer(r) == [r.d EXCEPT !.buffer = ""]

\* streamGoogle, `if (consumedUpTo > 0) buffer = buffer.substring(consumedUpTo)`
DropConsumed(r) ==
    IF r.consumedUpTo > 0 THEN [r.d EXCEPT !.buffer = Slice(@, r.consumedUpTo)] ELSE r.d

\* streamGoogle, the loop body after decoding: buffer += text, scan from index 0
GoogleChunk(d, text) ==
    DropConsumed(ScanBraces([d |-> [d EXCEPT !.buffer = @ \o text], braceCount |-> 0,
                             start |-> -1, consumedUpTo |-> 0],
                            0, Len(d.buffer) + Len(text)))

\* a read loop that only collects the text and hands nothing to the parser
DecodeChunkBatched(adapter, d, text) == [d EXCEPT !.buffer = @ \o text]

\* one pass of an adapter's read loop over a decoded chunk
DecodeChunk(adapter, d, text) ==
    IF adapter = "google" THEN GoogleChunk(d, text) ELSE ReadStreamChunk(adapter, d, text)

\* what an adapter does when reader.read() reports done
DecodeEnd(adapter, d) ==
    IF adapter = "google" THEN d ELSE ReadStreamEnd(adapter, d)

(***************************************************************************)
(* The byte streams of the model                                           *)
(***************************************************************************)

OpenAIBasic ==
    "data: {\"choices\":[{\"delta\":{\"content\":\"Hel\"}}]}\n\n"
    \o "data: {\"choices\":[{\"delta\":{\"content\":\"lo\"}}]}\n\n"
    \o "data: [DONE]\n\n"

\* CRLF line ends, a comment, a delta with no content, a non-ASCII character and a
\* last line with no newline
OpenAINoFinalNewline ==
    ": ping\r\n"
    \o "data: {\"choices\":[{\"delta\":{\"role\":\"assistant\"}}]}\r\n"
    \o "data: {\"choices\":[{\"delta\":{\"content\":\"caf^~\"}}]}"

\* data lines after the sentinel
OpenAIAfterDone ==
    "data: {\"choices\":[{\"delta\":{\"content\":\"a\"}}]}\n"
    \o "data: [DONE]\n"
    \o "data: {\"choices\":[{\"delta\":{\"content\":\"late\"}}]}\n\n"

\* a line that is no JSON between two that are
OpenAIMalformed ==
    "data: {\"choices\":[{\"delta\":{\"content\":\"x\"}}]}\n"
    \o "data: {oops\n"
    \o "  data: {\"choices\":[{\"delta\":{\"content\":\"y\"}}]} \n"

OpenAIStreams ==
    {OpenAIBasic, OpenAINoFinalNewline, OpenAIAfterDone, OpenAIMalformed, "data: [DONE]\n", ""}

AnthropicBasic ==
    "event: content_block_delta\n"
    \o "data: {\"type\":\"content_block_delta\",\"delta\":{\"text\":\"Hi\"}}\n\n"
    \o "event: ping\ndata: {\"type\":\"ping\"}\n\n"
    \o "data: {\"type\":\"content_block_delta\",\"delta\":{\"text\":\" there\"}}\n\n"
    \o "data: {\"type\":\"message_stop\"}"

AnthropicMalformed ==
    "data: {\"type\":\"content_block_delta\",\"delta\":{\"text\":\"A\"}}\r\n"
    \o "data: null\r\n"
    \o "data: {\"type\":\"content_block_delta\",\"delta\":{\"text\":\"B\"}"

AnthropicStreams == {AnthropicBasic, AnthropicMalformed}

\* the three chunks of the Google scenario of the specification
GoogleScenario1 == "[{\"candidates\":[{\"content\":{\"parts\":[{\"text\":\"Hel"
GoogleScenario2 == "lo\"}]}}]}]"
GoogleScenario3 == ",{\"candidates\":[{\"content\":{\"parts\":[{\"text\":\" world\"}]}}]}]"
GoogleScenario == GoogleScenario1 \o GoogleScenario2 \o GoogleScenario3

\* an array as the service sends it, an object without text in the middle
GoogleArray ==
    "[{\"candidates\":[{\"content\":{\"parts\":[{\"text\":\"caf^~ \"}]}}]}\n,\r\n"
    \o "{\"usageMetadata\":{\"totalTokenCount\":12}}\n,\r\n"
    \o "{\"candidates\":[{\"content\":{\"parts\":[{\"text\":\"au lait\"}]}}]}\n]"

\* string values that hold braces: balanced, an open one, a closing one, and an
\* open one after an escaped quote
GoogleBalancedBraces == "[{\"a\":\"{literal brace in string}\"},{\"a\":\"second\"}]"
GoogleOpenBrace == "[{\"a\":\"{\"},{\"a\":\"b\"}]"
GoogleCloseBrace == "[{\"a\":\"}\"},{\"a\":\"b\"}]"
GoogleEscapedQuote == "[{\"a\":\"\\\"{\"},{\"a\":\"b\"}]"

\* an object that is no JSON between two that are
GoogleMalformed ==
    "[{\"candidates\":[{\"content\":{\"parts\":[{\"text\":\"x\"}]}}]},{oops},"
    \o "{\"candidates\":[{\"content\":{\"parts\":[{\"text\":\"y\"}]}}]}]"

GoogleBraceFree == {GoogleScenario, GoogleArray, GoogleMalformed, "[]"}
GoogleStreams ==
    GoogleBraceFree
    \cup {GoogleBalancedBraces, GoogleOpenBrace, GoogleCloseBrace, GoogleEscapedQuote}

StreamsOf(adapter) ==
    CASE adapter = "openai"    -> OpenAIStreams
      [] adapter = "anthropic" -> AnthropicStreams
      [] OTHER                 -> GoogleStreams

\* How the network cuts the stream into chunks: at any byte ("arbitrary"), after
\* every byte ("bytewise"), or as the scenario of the specification does.
Deliveries == {"arbitrary", "bytewise", "scenario"}

ScenarioCuts ==
    {Len(GoogleScenario1), Len(GoogleScenario1) + Len(GoogleScenario2), Len(GoogleScenario)}

(***************************************************************************)
(* Dispatch: provider selection, keys, error envelopes, catch blocks       *)
(***************************************************************************)

\* the switch with the Google adapter as its default
StreamAdapterGoogleDefault(provider) ==
    CASE provider \in {"openai", "openrouter"} -> "streamOpenAI"
      [] provider = "anthropic"               -> "streamAnthropic"
      [] OTHER                                -> "streamGoogle"

\* the switch of executeApiStream
StreamAdapter(provider) ==
    CASE provider = "google"                  -> "streamGoogle"
      [] provider \in {"openai", "openrouter"} -> "streamOpenAI"
      [] provider = "anthropic"               -> "streamAnthropic"
      [] OTHER                                -> "streamOpenAI"

\* the switch of executeApiCall
CallAdapter(provider) ==
    CASE provider = "google"     -> "callGoogle"
      [] provider = "openai"     -> "callOpenAI"
      [] provider = "anthropic"  -> "callAnthropic"
      [] provider = "openrouter" -> "callOpenRouter"
      [] OTHER                   -> "callOpenAI"

\* the switch of the execute-api-call handler, whose adapters are those of its file
IpcAdapter(provider) ==
    CASE provider \in {"openai", "openrouter"} -> "ipcCallOpenAI"
      [] provider = "google"                  -> "ipcCallGoogle"
      [] provider = "anthropic"               -> "ipcCallAnthropic"
      [] OTHER                                -> "ipcCallOpenAI"

StreamingAdapters == {"streamGoogle", "streamOpenAI", "streamAnthropic"}

\* the wire format an adapter function speaks
Family(fn) ==
    CASE fn \in {"streamGoogle", "callGoogle", "ipcCallGoogle"}          -> "google"
      [] fn \in {"streamAnthropic", "callAnthropic", "ipcCallAnthropic"} -> "anthropic"
      [] OTHER                                                            -> "openai"

\* config.apiKeys[provider]: undefined, or an array of keys
NoPool == [defined |-> FALSE, keys |-> <<>>]
Pool(keys) == [defined |-> TRUE, keys |-> keys]

\* the pool check with the empty array let through
NoKeysUndefinedOnly(apiKeys) == ~apiKeys.defined

\* !apiKeys || apiKeys.length === 0
NoKeys(apiKeys) == ~apiKeys.defined \/ Len(apiKeys.keys) = 0

NoKeyResult(provider) == [text |-> "", error |-> <<"No API key found for " \o provider>>]

\* Math.random() gives r / RandomGrain for an r of 0..(RandomGrain - 1), which is in [0, 1)
RandomGrain == 8

\* the values of Math.floor(Math.random() * n)
RandomIndices(n) == {(r * n) \div RandomGrain : r \in 0..(RandomGrain - 1)}

\* apiKeys[i] for a 0-based i; out of range it is undefined
KeyAt(keys, i) == IF i < Len(keys) THEN keys[i + 1] ELSE "undefined"

Exception(name, message) == [name |-> name, message |-> message]
NoException == Exception("", "")
AbortError == Exception("AbortError", "The user aborted a request.")
NetworkError == Exception("TypeError", "Failed to fetch")

\* the message of the SyntaxError of JSON.parse and response.json() (V8's wording)
SyntaxErrorMessage(body) ==
    IF body = "" THEN "Unexpected end of JSON input"
    ELSE "Unexpected token " \o Ch(body, 1) \o " in JSON at position 0"

\* err.error?.message || response.statusText, as the message of new Error(...)
EnvelopeMessage(err, statusText) ==
    IF Truthy(OptProp(Prop(err, "error"), "message"))
    THEN JsToString(OptProp(Prop(err, "error"), "message"))
    ELSE statusText

\* `const err = await response.json(); throw new Error(err.error?.message ||
\* response.statusText)`, r being the outcome of parsing the body
ThrowFromJson(r, body, statusText) ==
    IF ~r.ok THEN Exception("SyntaxError", SyntaxErrorMessage(body))
    ELSE IF IsNullish(r.val)
    THEN Exception("TypeError", "Cannot read properties of null (reading 'error')")
    ELSE Exception("Error", EnvelopeMessage(r.val, statusText))

\* the `if (!response.ok)` block of streamOpenAI: the try block always throws (the
\* SyntaxError or TypeError of the parse, or its own new Error), and its catch
\* throws new Error(err || response.statusText) in place of whatever that was
StreamOpenAIThrow(err, statusText) ==
    Exception("Error", IF err # "" THEN err ELSE statusText)

\* what an adapter throws on a response that is not ok
NotOkThrow(fn, body, statusText) ==
    IF fn = "streamOpenAI" THEN StreamOpenAIThrow(body, statusText)
    ELSE ThrowFromJson(JsonParse(body), body, statusText)

\* data.choices?.[0]?.message?.content
OpenAIMessage(data) ==
    OptProp(OptProp(OptIndex0(Prop(data, "choices")), "message"), "content")

\* data.content?.find((c) => c.type === 'text'), for an array
RECURSIVE FindTextBlock(_, _)
FindTextBlock(content, i) ==
    IF i > Len(content) THEN Undefined
    ELSE IF ~IsNullish(content[i]) /\ Prop(content[i], "type") = JStr("text") THEN content[i]
    ELSE FindTextBlock(content, i + 1)

\* the text a non-streaming adapter returns for the parsed body `data`
ResultText(fn, data) ==
    CASE fn \in {"callOpenAI", "callOpenRouter"} -> TextOrNull(OpenAIMessage(data))
      [] fn = "ipcCallOpenAI" ->
            IF Truthy(OpenAIMessage(data)) THEN JsToString(OpenAIMessage(data))
            ELSE TextOrNull(OptProp(OptIndex0(Prop(data, "choices")), "text"))
      [] fn \in {"callGoogle", "ipcCallGoogle"} -> GoogleText(data)
      [] fn = "callAnthropic" -> TextOrNull(OptProp(OptIndex0(Prop(data, "content")), "text"))
      [] OTHER ->
            IF Prop(data, "content").t = "arr"
            THEN TextOrNull(OptProp(FindTextBlock(Prop(data, "content").a, 1), "text"))
            ELSE ""

\* `const data = await response.json(); return { text: ... || '' }`: the result, or
\* what is thrown (a property of null, or find on something that is no array)
OkBodyResult(fn, r, body) ==
    IF ~r.ok THEN [thrown |-> Exception("SyntaxError", SyntaxErrorMessage(body)), text |-> ""]
    ELSE IF IsNullish(r.val)
    THEN [thrown |-> Exception("TypeError", "Cannot read properties of null"), text |-> ""]
    ELSE IF fn = "ipcCallAnthropic" /\ ~IsNullish(Prop(r.val, "content"))
            /\ Prop(r.val, "content").t # "arr"
    THEN [thrown |-> Exception("TypeError", "data.content?.find is not a function"), text |-> ""]
    ELSE [thrown |-> NoException, text |-> ResultText(fn, r.val)]

Pending == [kind |-> "pending", text |-> "", error |-> <<>>, name |-> ""]
\* the promise fulfilled with {text, error}; error is <<>> when there is no such field
Resolved(text, error) == [kind |-> "resolved", text |-> text, error |-> error, name |-> ""]
\* the promise rejected with an exception of the given name
Rejected(name) == [kind |-> "rejected", text |-> "", error |-> <<>>, name |-> name]

\* the catch block reporting e.message as it is
CallCatchNoDefault(e) == Resolved("", <<e.message>>)

\* the catch block of executeApiCall, and of the execute-api-call handler
CallCatch(e) ==
    Resolved("", <<IF e.message # "" THEN e.message ELSE "API call failed">>)

\* a catch block that reports every exception as an error
StreamCatchNoRethrow(e) ==
    Resolved("", <<IF e.message # "" THEN e.message ELSE "Stream failed">>)

\* the catch block of executeApiStream
StreamCatch(e) ==
    IF e.name = "AbortError" THEN Rejected(e.name)
    ELSE Resolved("", <<IF e.message # "" THEN e.message ELSE "Stream failed">>)

(***************************************************************************)
(* The responses and relay messages of the model                           *)
(***************************************************************************)

\* the statuses of a response that is not ok: a rejected key, an exhausted quota
ErrorStatuses == {401, 429}
StatusTexts == {"Unauthorized", ""}

ErrorEnvelope == "{\"error\":{\"message\":\"bad key\"}}"
ErrorBodies == {ErrorEnvelope, "<html>Bad Gateway</html>", "", "{\"error\":\"denied\"}"}

OkBodies ==
    {"{\"choices\":[{\"message\":{\"content\":\"Hello\"}}]}",
     "{\"candidates\":[{\"content\":{\"parts\":[{\"text\":\"Hello\"}]}}]}",
     "{\"content\":[{\"type\":\"text\",\"text\":\"Hello\"}]}",
     "{}"}

\* a short body for each wire format
ShortStream(family) ==
    CASE family = "openai" ->
            "data: {\"choices\":[{\"delta\":{\"content\":\"Hi\"}}]}\n\ndata: [DONE]\n"
      [] family = "anthropic" ->
            "data: {\"type\":\"content_block_delta\",\"delta\":{\"text\":\"Hi\"}}\n"
      [] OTHER ->
            "[{\"candidates\":[{\"content\":{\"parts\":[{\"text\":\"Hi\"}]}}]}]"

\* a message on the port; an absent field is FALSE or ""
Message(done, error, chunk) == [done |-> done, error |-> error, chunk |-> chunk]
RelayMessages ==
    {Message(TRUE, "", ""), Message(FALSE, "quota exceeded", ""),
     Message(FALSE, "", "a"), Message(FALSE, "", "b"), Message(FALSE, "", "")}

\* the replies to PROXY_API_CALL
RelayReplies ==
    {[text |-> "Hello", error |-> <<>>], [text |-> "", error |-> <<"bad key">>]}

Providers == {"google", "openai", "anthropic", "openrouter", "custom"}
Pools == {NoPool, Pool(<<>>), Pool(<<"k1">>), Pool(<<"k1", "k2">>)}
Protocols == {"https:", "http:", "chrome-extension:"}

\* the number of messages posted to a relay session of the model at most
MaxRelayMessages == 3

(***************************************************************************)
(* State                                                                   *)
(***************************************************************************)

VARIABLES
    entry,       \* "callApi", or "ipc" for the execute-api-call handler
    protocol,    \* window.location.protocol
    hasSink,     \* whether callApi was given onChunk
    hasSignal,   \* whether callApi was given signal
    aborted,     \* signal.aborted
    abortPoint,  \* when the signal was raised: "none", "early" (the session pending
                 \* and nothing received yet), "late" or "settled"
    provider,    \* config.selectedProvider
    apiKeys,     \* config.apiKeys[provider]
    history,     \* the keys the earlier calls of the dispatchers were made with
    calls,       \* the adapter calls made: [fn, key], in order
    fetches,     \* the number of fetch() calls made
    http,        \* the response of the fetch: [status, ok, statusText, body]
    thrown,      \* the exception the adapter threw
    port,        \* the port of the relay: "none", "open", "disconnected" (by callApi)
                 \* or "closed" (by the other end)
    posted,      \* the number of messages posted on the port
    sendMessages,\* the number of chrome.runtime.sendMessage calls
    listener,    \* whether the abort listener of callApi is registered
    received,    \* the number of messages the port listener has handled
    sent,        \* the messages posted to the caller on the port, in order
    sessions,    \* the sessions of several callApi invocations open at once
    stream,      \* the bytes of the response body
    delivery,    \* how the network cuts them into chunks
    pos,         \* the number of bytes reader.read() has returned
    pending,     \* the bytes the TextDecoder holds back
    buffer,      \* the local `buffer` of the read loop
    fullText,    \* the local `fullText` of the adapter, or of callApi on the relay
    sink,        \* the arguments of the calls of onChunk, in order
    units,       \* the units offered to the parser, in order
    jsonArgs,    \* the strings handed to JSON.parse by the parser, in order
    sinkAtDone,  \* Len(sink) when the [DONE] sentinel was first decoded, or -1
    pc,          \* where the session is
    outcome      \* how the promise of the session settled

inVars == <<entry, protocol, hasSink, hasSignal, provider, apiKeys, history>>
sigVars == <<aborted, abortPoint>>
netVars == <<calls, fetches, http, thrown>>
relayVars == <<port, posted, sendMessages, listener, received, sent>>
\* what no step of the caller of one session touches
farVars == <<sessions>>
byteVars == <<stream, delivery, pos, pending>>
decVars == <<buffer, fullText, sink, units, jsonArgs, sinkAtDone>>
vars == <<inVars, sigVars, netVars, relayVars, farVars, byteVars, decVars, pc, outcome>>

\* a Response: ok is `status in 200..299`; status 0 stands for no response yet
Response(status, statusText, body) ==
    [status |-> status, ok |-> status \in 200..299, statusText |-> statusText, body |-> body]
NoResponse == Response(0, "", "")

\* the adapter function running, "" before any call
fn == IF calls = <<>> THEN "" ELSE calls[Len(calls)].fn
\* its wire format
adapter == Family(fn)
\* whether the running adapter was given the signal, which the streaming ones pass
\* to fetch
SignalPassed == fn \in StreamingAdapters /\ hasSignal
\* the pending await of the adapter can only reject with AbortError
MustAbort == SignalPassed /\ aborted

Dec ==
    [buffer |-> buffer, fullText |-> fullText, sink |-> sink, units |-> units,
     jsonArgs |-> jsonArgs, sinkAtDone |-> sinkAtDone]

SetDec(d) ==
    /\ buffer' = d.buffer
    /\ fullText' = d.fullText
    /\ sink' = d.sink
    /\ units' = d.units
    /\ jsonArgs' = d.jsonArgs
    /\ sinkAtDone' = d.sinkAtDone

DecInit ==
    /\ buffer = ""
    /\ fullText = ""
    /\ sink = <<>>
    /\ units = <<>>
    /\ jsonArgs = <<>>
    /\ sinkAtDone = -1

\* one call of callApi or of the handler about to be made
InitCall ==
    /\ entry \in {"callApi", "ipc"}
    /\ protocol \in IF entry = "ipc" THEN {"file:"} ELSE Protocols
    /\ hasSink \in IF entry = "ipc" THEN {FALSE} ELSE BOOLEAN
    /\ hasSignal \in IF entry = "ipc" THEN {FALSE} ELSE BOOLEAN
    /\ aborted \in IF hasSignal THEN BOOLEAN ELSE {FALSE}
    /\ abortPoint = IF aborted THEN "early" ELSE "none"
    /\ provider \in Providers
    /\ apiKeys \in Pools
    /\ history = <<>>
    /\ calls = <<>>
    /\ fetches = 0
    /\ http = NoResponse
    /\ thrown = NoException
    /\ port = "none"
    /\ posted = 0
    /\ sendMessages = 0
    /\ listener = FALSE
    /\ received = 0
    /\ sent = <<>>
    /\ stream = ""
    /\ delivery = "whole"
    /\ pos = 0
    /\ pending = ""
    /\ DecInit
    /\ pc = "idle"
    /\ outcome = Pending

\* callApi or the handler about to be called, and no other session
Init == InitCall /\ sessions = <<>>

\* executeApiStream inside a streaming adapter whose fetch has answered with a
\* success status: callApi in the extension context, a sink, no signal, one key
ReadingInit(fns) ==
    /\ entry = "callApi"
    /\ protocol = "chrome-extension:"
    /\ hasSink = TRUE
    /\ hasSignal = FALSE
    /\ aborted = FALSE
    /\ abortPoint = "none"
    /\ provider \in {"google", "openai", "anthropic"}
    /\ StreamAdapter(provider) \in fns
    /\ apiKeys = Pool(<<"k1">>)
    /\ history = <<>>
    /\ calls = <<[fn |-> StreamAdapter(provider), key |-> "k1"]>>
    /\ fetches = 1
    /\ stream \in StreamsOf(Family(StreamAdapter(provider)))
    /\ http = Response(200, "OK", stream)
    /\ thrown = NoException
    /\ port = "none"
    /\ posted = 0
    /\ sendMessages = 0
    /\ listener = FALSE
    /\ received = 0
    /\ sent = <<>>
    /\ sessions = <<>>
    /\ delivery \in IF stream = GoogleScenario
                    THEN {"arbitrary", "bytewise", "scenario"}
                    ELSE {"arbitrary", "bytewise"}
    /\ pos = 0
    /\ pending = ""
    /\ DecInit
    /\ pc = "reading"
    /\ outcome = Pending

\* the chunk lengths the delivery allows next
ChunkLengths ==
    {n \in 1..(Len(stream) - pos) :
        \/ delivery = "arbitrary"
        \/ delivery = "bytewise" /\ n = 1
        \/ delivery = "whole" /\ n = Len(stream) - pos
        \/ delivery = "scenario" /\ pos + n \in ScenarioCuts
                                 /\ \A c \in ScenarioCuts : ~(pos < c /\ c < pos + n)}

(***************************************************************************)
(* callApi, the dispatchers and the handler                                *)
(***************************************************************************)

\* a dispatcher that takes the keys of the pool in turn, one call after the other
DispatchRoundRobin(adapterFn) ==
    IF NoKeys(apiKeys)
    THEN /\ outcome' = Resolved(NoKeyResult(provider).text, NoKeyResult(provider).error)
         /\ pc' = "settled"
         /\ UNCHANGED <<calls, fetches>>
    ELSE /\ calls' = Append(calls, [fn |-> adapterFn,
                                    key |-> KeyAt(apiKeys.keys,
                                                  Len(history) % Len(apiKeys.keys))])
         /\ fetches' = fetches + 1
         /\ pc' = "fetching"
         /\ UNCHANGED outcome

\* the dispatcher up to its first await: the pool check, the key, the adapter's fetch
Dispatch(adapterFn) ==
    IF NoKeys(apiKeys)
    THEN /\ outcome' = Resolved(NoKeyResult(provider).text, NoKeyResult(provider).error)
         /\ pc' = "settled"
         /\ UNCHANGED <<calls, fetches>>
    ELSE /\ \E i \in RandomIndices(Len(apiKeys.keys)) :
               calls' = Append(calls, [fn |-> adapterFn, key |-> KeyAt(apiKeys.keys, i)])
         /\ fetches' = fetches + 1
         /\ pc' = "fetching"
         /\ UNCHANGED outcome

\* callApi on a page (the protocol starts with 'http') with a sink: the port is
\* opened, the listeners are registered and the initiation message is posted
CallApiRelayStream ==
    /\ pc = "idle" /\ entry = "callApi"
    /\ StartsWith(protocol, "http") /\ hasSink
    /\ port' = "open"
    /\ listener' = hasSignal
    /\ posted' = posted + 1
    /\ pc' = "relayStream"
    /\ UNCHANGED <<inVars, farVars, sigVars, netVars, sendMessages, received, sent, byteVars, decVars,
                   outcome>>

\* callApi on a page without a sink: one PROXY_API_CALL request
CallApiRelayCall ==
    /\ pc = "idle" /\ entry = "callApi"
    /\ StartsWith(protocol, "http") /\ ~hasSink
    /\ sendMessages' = sendMessages + 1
    /\ pc' = "relayCall"
    /\ UNCHANGED <<inVars, farVars, sigVars, netVars, port, posted, listener, received, sent, byteVars,
                   decVars, outcome>>

\* callApi in the extension with a sink: executeApiStream
CallApiStream ==
    /\ pc = "idle" /\ entry = "callApi"
    /\ ~StartsWith(protocol, "http") /\ hasSink
    /\ Dispatch(StreamAdapter(provider))
    /\ UNCHANGED <<inVars, farVars, sigVars, http, thrown, relayVars, byteVars, decVars>>

\* callApi without a sink calling executeApiCall whatever the protocol
CallApiCallAnyProtocol ==
    /\ pc = "idle" /\ entry = "callApi"
    /\ ~hasSink
    /\ Dispatch(CallAdapter(provider))
    /\ UNCHANGED <<inVars, farVars, sigVars, http, thrown, relayVars, byteVars, decVars>>

\* callApi in the extension without a sink: executeApiCall
CallApiCall ==
    /\ pc = "idle" /\ entry = "callApi"
    /\ ~StartsWith(protocol, "http") /\ ~hasSink
    /\ Dispatch(CallAdapter(provider))
    /\ UNCHANGED <<inVars, farVars, sigVars, http, thrown, relayVars, byteVars, decVars>>

\* the execute-api-call handler of the Electron main process
IpcExecuteApiCall ==
    /\ pc = "idle" /\ entry = "ipc"
    /\ Dispatch(IpcAdapter(provider))
    /\ UNCHANGED <<inVars, farVars, sigVars, http, thrown, relayVars, byteVars, decVars>>

\* the catch block calling the dispatcher again while the session is pending
ThrowRetry(e) ==
    /\ thrown' = e
    /\ outcome' = outcome
    /\ pc' = "idle"

\* the adapter throws e: the catch block of its dispatcher settles the session
Throw(e) ==
    /\ thrown' = e
    /\ outcome' = IF fn \in StreamingAdapters THEN StreamCatch(e) ELSE CallCatch(e)
    /\ pc' = "settled"

\* `await fetch(...)` rejects: the network failed, or the signal given to it is aborted
FetchRejects ==
    /\ pc = "fetching"
    /\ Throw(IF MustAbort THEN AbortError ELSE NetworkError)
    /\ UNCHANGED <<inVars, farVars, sigVars, calls, fetches, http, relayVars, byteVars, decVars>>

\* `await fetch(...)` gives a response that is not ok
FetchNotOk ==
    /\ pc = "fetching" /\ ~MustAbort
    /\ \E status \in ErrorStatuses, statusText \in StatusTexts, body \in ErrorBodies :
          http' = Response(status, statusText, body)
    /\ pc' = "errBody"
    /\ UNCHANGED <<inVars, farVars, sigVars, calls, fetches, thrown, relayVars, byteVars, decVars,
                   outcome>>

\* `await fetch(...)` gives an ok response to a non-streaming adapter
FetchOkCall ==
    /\ pc = "fetching" /\ fn \notin StreamingAdapters
    /\ \E body \in OkBodies : http' = Response(200, "OK", body)
    /\ pc' = "okBody"
    /\ UNCHANGED <<inVars, farVars, sigVars, calls, fetches, thrown, relayVars, byteVars, decVars,
                   outcome>>

\* `await fetch(...)` gives an ok response with a body to a streaming adapter
FetchOkStream ==
    /\ pc = "fetching" /\ fn \in StreamingAdapters /\ ~MustAbort
    /\ stream' = ShortStream(adapter)
    /\ delivery' \in {"bytewise", "whole"}
    /\ http' = Response(200, "OK", stream')
    /\ pc' = "reading"
    /\ UNCHANGED <<inVars, farVars, sigVars, calls, fetches, thrown, relayVars, pos, pending,
                   decVars, outcome>>

\* an ok response without a body: `if (!reader) throw new Error(...)`
FetchOkNoBody ==
    /\ pc = "fetching" /\ fn \in StreamingAdapters /\ ~MustAbort
    /\ http' = Response(200, "OK", "")
    /\ Throw(Exception("Error", IF fn = "streamGoogle" THEN "No body"
                                 ELSE "Response body is unavailable"))
    /\ UNCHANGED <<inVars, farVars, sigVars, calls, fetches, relayVars, byteVars, decVars>>

\* the body of a response that is not ok has been read: the adapter throws
ErrorBodyRead ==
    /\ pc = "errBody"
    /\ Throw(IF MustAbort THEN AbortError ELSE NotOkThrow(fn, http.body, http.statusText))
    /\ UNCHANGED <<inVars, farVars, sigVars, calls, fetches, http, relayVars, byteVars, decVars>>

\* `await response.json()` of an ok response: the non-streaming adapter returns or throws
OkBodyRead ==
    /\ pc = "okBody"
    /\ LET r == OkBodyResult(fn, JsonParse(http.body), http.body) IN
          IF r.thrown # NoException
          THEN Throw(r.thrown)
          ELSE /\ outcome' = Resolved(r.text, <<>>)
               /\ pc' = "settled"
               /\ UNCHANGED thrown
    /\ UNCHANGED <<inVars, farVars, sigVars, calls, fetches, http, relayVars, byteVars, decVars>>

(***************************************************************************)
(* The read loops                                                          *)
(***************************************************************************)

\* reader.read() returns a chunk: one pass of the loop of readStream or streamGoogle
ReadChunk ==
    /\ pc = "reading" /\ ~MustAbort
    /\ \E n \in ChunkLengths :
          LET t == Decode(pending, Sub(stream, pos + 1, pos + n)) IN
          /\ pos' = pos + n
          /\ pending' = t.pending
          /\ SetDec(DecodeChunk(adapter, Dec, t.text))
    /\ UNCHANGED <<inVars, farVars, sigVars, netVars, relayVars, stream, delivery, pc, outcome>>

\* reader.read() reports done: the rest of the adapter, which returns {text: fullText}
ReadDone ==
    /\ pc = "reading" /\ ~MustAbort
    /\ pos = Len(stream)
    /\ SetDec(DecodeEnd(adapter, Dec))
    /\ outcome' = Resolved(fullText', <<>>)
    /\ pc' = "settled"
    /\ UNCHANGED <<inVars, farVars, sigVars, netVars, relayVars, byteVars>>

\* reader.read() rejects: the signal is aborted, or the connection broke
ReadRejects ==
    /\ pc = "reading"
    /\ Throw(IF MustAbort THEN AbortError ELSE Exception("TypeError", "network error"))
    /\ UNCHANGED <<inVars, farVars, sigVars, calls, fetches, http, relayVars, byteVars, decVars>>

(***************************************************************************)
(* Cancellation and the caller half of the relay                           *)
(***************************************************************************)

\* what has arrived for the session: relay messages, or bytes of the response body
Arrived == IF port # "none" THEN received ELSE pos

\* resolve(...) and reject(...) of a promise: only the first call settles it
Settle(promise, result) == IF promise.kind = "pending" THEN result ELSE promise

\* what the closures of one relay session of callApi share: the port, the promise,
\* fullText, and the calls of onChunk
Session == [port |-> port, outcome |-> outcome, fullText |-> fullText, sink |-> sink]

SetSession(s) ==
    /\ port' = s.port
    /\ outcome' = s.outcome
    /\ fullText' = s.fullText
    /\ sink' = s.sink

\* the abort listener with the port left open
OnAbortKeepPort(s) == [s EXCEPT !.outcome = Settle(@, Rejected("AbortError"))]

\* the abort listener callApi registers on the relay path
OnAbort(s) ==
    [s EXCEPT !.port = "disconnected", !.outcome = Settle(@, Rejected("AbortError"))]

\* the done branch with the port left open
OnDoneKeepPort(s) == [s EXCEPT !.outcome = Settle(@, Resolved(s.fullText, <<>>))]

\* if (msg.done) { port.disconnect(); resolve({ text: fullText }); }
OnDone(s) ==
    [s EXCEPT !.port = "disconnected", !.outcome = Settle(@, Resolved(s.fullText, <<>>))]

\* the error branch with the port left open
OnErrorKeepPort(s, error) == [s EXCEPT !.outcome = Settle(@, Resolved(s.fullText, <<error>>))]

\* else if (msg.error) { port.disconnect(); resolve({ text: fullText, error: msg.error }); }
OnError(s, error) ==
    [s EXCEPT !.port = "disconnected",
              !.outcome = Settle(@, Resolved(s.fullText, <<error>>))]

\* the chunk branch with fullText left alone
OnChunkNoAccumulate(s, chunk) == [s EXCEPT !.sink = Append(@, chunk)]

\* else if (msg.chunk) { fullText += msg.chunk; onChunk(msg.chunk); }
OnChunk(s, chunk) == [s EXCEPT !.fullText = @ \o chunk, !.sink = Append(@, chunk)]

\* the port's onMessage listener of callApi
OnMessage(s, msg) ==
    IF msg.done THEN OnDone(s)
    ELSE IF msg.error # "" THEN OnError(s, msg.error)
    ELSE IF msg.chunk # "" THEN OnChunk(s, msg.chunk)
    ELSE s

\* controller.abort(): the signal is aborted and its listeners run, the one callApi
\* registered on the relay path among them
Abort ==
    /\ hasSignal /\ ~aborted
    /\ aborted' = TRUE
    /\ abortPoint' = IF outcome.kind # "pending" THEN "settled"
                     ELSE IF Arrived = 0 THEN "early" ELSE "late"
    /\ IF listener THEN SetSession(OnAbort(Session)) ELSE UNCHANGED <<port, outcome, fullText, sink>>
    /\ UNCHANGED <<inVars, farVars, netVars, posted, sendMessages, listener, received, sent,
                   byteVars, buffer, units, jsonArgs, sinkAtDone, pc>>

\* the other end of the port posts a message to the caller; it may do so in any
\* order and also after the caller has disconnected, but not after it closed the
\* port itself
Post ==
    /\ pc = "relayStream" /\ port # "closed"
    /\ Len(sent) < MaxRelayMessages
    /\ \E msg \in RelayMessages : sent' = Append(sent, msg)
    /\ UNCHANGED <<inVars, farVars, sigVars, netVars, port, posted, sendMessages, listener,
                   received, byteVars, decVars, pc, outcome>>

\* the next message is dispatched to the onMessage listener of callApi; a
\* disconnected port dispatches no event
RelayMessage ==
    /\ pc = "relayStream" /\ port = "open"
    /\ received < Len(sent)
    /\ received' = received + 1
    /\ SetSession(OnMessage(Session, sent[received + 1]))
    /\ UNCHANGED <<inVars, farVars, sigVars, netVars, posted, sendMessages, listener, sent,
                   byteVars, buffer, units, jsonArgs, sinkAtDone, pc>>

\* an onDisconnect listener that resolves the promise with the text so far
OnDisconnectResolves(s) ==
    [s EXCEPT !.port = "closed", !.outcome = Settle(@, Resolved(s.fullText, <<>>))]

\* the port's onDisconnect event: callApi registers no listener for it
OnDisconnect(s) == [s EXCEPT !.port = "closed"]

\* the other end closes the port; the messages it posted before are dispatched first
PortClosed ==
    /\ pc = "relayStream" /\ port = "open"
    /\ received = Len(sent)
    /\ SetSession(OnDisconnect(Session))
    /\ UNCHANGED <<inVars, farVars, sigVars, netVars, posted, sendMessages, listener,
                   received, sent, byteVars, buffer, units, jsonArgs, sinkAtDone, pc>>

\* the reply to the PROXY_API_CALL request settles callApi
RelayReply ==
    /\ pc = "relayCall"
    /\ \E reply \in RelayReplies : outcome' = Resolved(reply.text, reply.error)
    /\ pc' = "settled"
    /\ UNCHANGED <<inVars, farVars, sigVars, netVars, relayVars, byteVars, decVars>>

(***************************************************************************)
(* Specifications                                                          *)
(***************************************************************************)

Next ==
    \/ CallApiRelayStream
    \/ CallApiRelayCall
    \/ CallApiStream
    \/ CallApiCall
    \/ IpcExecuteApiCall
    \/ FetchRejects
    \/ FetchNotOk
    \/ FetchOkCall
    \/ FetchOkStream
    \/ FetchOkNoBody
    \/ ErrorBodyRead
    \/ OkBodyRead
    \/ ReadChunk
    \/ ReadDone
    \/ ReadRejects
    \/ Abort
    \/ Post
    \/ RelayMessage
    \/ PortClosed
    \/ RelayReply

\* one call of callApi or of the handler, from the call to its result
Spec == Init /\ [][Next]_vars

InitSSE == ReadingInit({"streamOpenAI", "streamAnthropic"})
InitGoogle == ReadingInit({"streamGoogle"})

NextRead == ReadChunk \/ ReadDone

\* the line-oriented adapters from the first read to the result, every stream and cut
SpecSSE == InitSSE /\ [][NextRead]_vars

\* streamGoogle from the first read to the result
SpecGoogle == InitGoogle /\ [][NextRead]_vars

InitDecode == InitSSE \/ InitGoogle

\* the three streaming adapters from the first read to the result
SpecDecode == InitDecode /\ [][NextRead]_vars

\* the calls of the dispatchers one caller makes in a row at most
MaxCalls == 3

\* the call has returned and the caller calls again with the same configuration
CallAgain ==
    /\ pc = "settled" /\ calls # <<>>
    /\ Len(history) + 1 < MaxCalls
    /\ history' = Append(history, calls[1].key)
    /\ calls' = <<>>
    /\ fetches' = 0
    /\ thrown' = NoException
    /\ outcome' = Pending
    /\ pc' = "idle"
    /\ UNCHANGED <<entry, protocol, hasSink, hasSignal, provider, apiKeys, sigVars, http,
                   relayVars, farVars, byteVars, decVars>>

\* a caller in the privileged context with keys configured
InitKeys ==
    /\ Init
    /\ ~StartsWith(protocol, "http") /\ ~hasSignal
    /\ ~NoKeys(apiKeys)

NextKeys ==
    \/ CallApiStream
    \/ CallApiCall
    \/ IpcExecuteApiCall
    \/ FetchRejects
    \/ CallAgain

\* calls of a dispatcher made one after the other, each of them failing
SpecKeys == InitKeys /\ [][NextKeys]_vars

(***************************************************************************)
(* Several relay sessions at once                                          *)
(***************************************************************************)

\* the callApi invocations open at once in the model
SessionIds == {1, 2}

\* the closure of one streaming callApi over the relay before chrome.runtime.connect,
\* with the signal it was given (listener, aborted) and the messages posted to its
\* port (sent) and dispatched to its listener (received)
IdleSession ==
    [port |-> "none", outcome |-> Pending, fullText |-> "", sink |-> <<>>,
     listener |-> FALSE, aborted |-> FALSE, sent |-> <<>>, received |-> 0]

\* what the other end posts to session i: every session has its own texts
SessionMessages(i) ==
    {Message(TRUE, "", ""), Message(FALSE, "error " \o NatToString(i), ""),
     Message(FALSE, "", "chunk " \o NatToString(i))}

RECURSIVE TotalSent(_, _)
TotalSent(ss, ids) ==
    IF ids = {} THEN 0
    ELSE LET i == CHOOSE x \in ids : TRUE IN Len(ss[i].sent) + TotalSent(ss, ids \ {i})

\* a message posted to the port of session i dispatched to the listeners of all
\* open sessions
DeliverToAll(ss, i) ==
    [j \in DOMAIN ss |->
        IF j = i THEN [OnMessage(ss[i], ss[i].sent[ss[i].received + 1])
                          EXCEPT !.received = @ + 1]
        ELSE IF ss[j].port = "open" THEN OnMessage(ss[j], ss[i].sent[ss[i].received + 1])
        ELSE ss[j]]

\* the next message posted to the port of session i is dispatched to the listener
\* registered on that port, whose closure holds the fullText and onChunk of session i
Deliver(ss, i) ==
    [ss EXCEPT ![i] = [OnMessage(ss[i], ss[i].sent[ss[i].received + 1])
                          EXCEPT !.received = @ + 1]]

oneVars == <<inVars, sigVars, netVars, relayVars, byteVars, decVars, pc, outcome>>

\* callApi with a sink on a page, for session i: connect, listeners, initiation message
SessionCall(i) ==
    /\ sessions[i].port = "none"
    /\ \E signal \in BOOLEAN :
          sessions' = [sessions EXCEPT ![i].port = "open", ![i].listener = signal]
    /\ UNCHANGED oneVars

\* the other end posts a message to the port of session i
SessionPost(i) ==
    /\ sessions[i].port # "none"
    /\ TotalSent(sessions, SessionIds) < MaxRelayMessages
    /\ \E msg \in SessionMessages(i) :
          sessions' = [sessions EXCEPT ![i].sent = Append(@, msg)]
    /\ UNCHANGED oneVars

\* the port of session i dispatches its next message
SessionMessage(i) ==
    /\ sessions[i].port = "open"
    /\ sessions[i].received < Len(sessions[i].sent)
    /\ sessions' = Deliver(sessions, i)
    /\ UNCHANGED oneVars

\* the signal of session i is aborted
SessionAbort(i) ==
    /\ sessions[i].listener /\ ~sessions[i].aborted
    /\ sessions' = [sessions EXCEPT ![i] = [OnAbort(@) EXCEPT !.aborted = TRUE]]
    /\ UNCHANGED oneVars

InitMulti ==
    /\ InitCall
    /\ entry = "callApi" /\ protocol = "https:" /\ hasSink /\ hasSignal /\ ~aborted
    /\ provider = "openai" /\ apiKeys = Pool(<<"k1">>)
    /\ sessions = [i \in SessionIds |-> IdleSession]

NextMulti ==
    \E i \in SessionIds :
        SessionCall(i) \/ SessionPost(i) \/ SessionMessage(i) \/ SessionAbort(i)

\* streaming callApi invocations on one page, their events interleaved in any order
SpecMulti == InitMulti /\ [][NextMulti]_vars

(***************************************************************************)
(* Properties                                                              *)
(***************************************************************************)

RECURSIVE Concat(_)
Concat(fragments) ==
    IF fragments = <<>> THEN "" ELSE Head(fragments) \o Concat(Tail(fragments))

\* the run of an adapter on the stream s delivered as one chunk
OneChunk(a, s) == DecodeEnd(a, DecodeChunk(a, DecodeStart, Decode("", s).text))

Settled == outcome.kind # "pending"

\* C1: however an SSE stream is cut into chunks, the fragments handed to the sink,
\* concatenated, are those of the stream delivered as one chunk.
C1_SSEChunkingInvariant ==
    (Settled /\ adapter \in {"openai", "anthropic"})
        => Concat(sink) = Concat(OneChunk(adapter, stream).sink)

\* a stream delivered byte by byte, cut inside every line and every `data: ` prefix
C1_Witness ==
    /\ Settled
    /\ stream = OpenAIBasic
    /\ delivery = "bytewise"
    /\ sink = <<"Hel", "lo">>

\* The top-level objects of a text, by a scan that knows string literals: st holds
\* depth, start (1-based, 0 for none), inString, escaped and the objects found.
AwareStep(st, s, i) ==
    LET c == SubSeq(s, i, i) IN
    IF st.inString
    THEN IF st.escaped THEN [st EXCEPT !.escaped = FALSE]
         ELSE IF c = "\\" THEN [st EXCEPT !.escaped = TRUE]
         ELSE IF c = "\"" THEN [st EXCEPT !.inString = FALSE]
         ELSE st
    ELSE IF c = "\"" THEN [st EXCEPT !.inString = TRUE]
    ELSE IF c = "{"
    THEN [st EXCEPT !.depth = @ + 1, !.start = IF st.depth = 0 THEN i ELSE @]
    ELSE IF c = "}" /\ st.depth = 1
    THEN [st EXCEPT !.depth = 0, !.start = 0,
                    !.found = Append(@, SubSeq(s, st.start, i))]
    ELSE IF c = "}" /\ st.depth > 1 THEN [st EXCEPT !.depth = @ - 1]
    ELSE st

RECURSIVE AwareScan(_, _, _, _)
AwareScan(st, s, lo, hi) ==
    IF lo >= hi THEN st
    ELSE IF hi = lo + 1 THEN AwareStep(st, s, lo)
    ELSE LET mid  == (lo + hi) \div 2
             left == AwareScan(st, s, lo, mid)
         IN  IF left = st THEN AwareScan(st, s, mid, hi) ELSE AwareScan(left, s, mid, hi)

TopLevelObjects(s) ==
    AwareScan([depth |-> 0, start |-> 0, inString |-> FALSE, escaped |-> FALSE,
               found |-> <<>>], s, 1, Len(s) + 1).found

\* C2: the units streamGoogle offers to the extractor are exactly the top-level
\* objects of the stream, also when string values contain braces.
C2_StringLiteralAware ==
    (Settled /\ adapter = "google") => units = TopLevelObjects(Decode("", stream).text)

\* C3: the array of the specification, one character per chunk, gives exactly two
\* units, each the full text of one of its two objects.
C3_TwoUnitsBytewise ==
    (Settled /\ stream = GoogleBalancedBraces /\ delivery = "bytewise")
        => units = <<"{\"a\":\"{literal brace in string}\"}", "{\"a\":\"second\"}">>

C3_Witness ==
    /\ Settled
    /\ stream = GoogleBalancedBraces
    /\ delivery = "bytewise"
    /\ pos = Len(stream)
    /\ Len(units) = 2

\* C4: for a Google stream with no braces in its text, every cut gives the fragments
\* and the fullText of the one-chunk delivery; the three chunks of the specification
\* give "Hello", then " world", and "Hello world".
C4_GoogleChunkingInvariant ==
    (Settled /\ adapter = "google" /\ stream \in GoogleBraceFree)
        => /\ sink = OneChunk("google", stream).sink
           /\ outcome = Resolved(OneChunk("google", stream).fullText, <<>>)
           /\ (stream = GoogleScenario /\ delivery = "scenario")
                 => (sink = <<"Hello", " world">> /\ outcome.text = "Hello world")

C4_Witness ==
    /\ Settled
    /\ stream = GoogleScenario
    /\ delivery = "scenario"
    /\ sink = <<"Hello", " world">>
    /\ outcome = Resolved("Hello world", <<>>)

\* C5: once `data: [DONE]` has been decoded streamOpenAI delivers no further
\* fragment, and the sentinel is never handed to JSON.parse.
C5_NoFragmentAfterDone ==
    adapter = "openai"
        => /\ sinkAtDone # -1 => Len(sink) = sinkAtDone
           /\ \A i \in 1..Len(jsonArgs) : jsonArgs[i] # "[DONE]"

\* C6: a streaming session that reached the network or the relay and whose signal
\* was raised before any response byte or relay message arrived (a signal already
\* aborted at the call included) ends rejected with AbortError: it never resolves
\* with {text: ''} and never with an error field.
C6_CancelledBeforeArrival ==
    (/\ entry = "callApi" /\ hasSink
     /\ abortPoint = "early"
     /\ fetches > 0 \/ port # "none"
     /\ outcome.kind # "pending")
        => outcome = Rejected("AbortError")

\* C7: whatever a streaming adapter throws, executeApiStream rejects with it when it
\* is an AbortError, fragments delivered or not, and otherwise resolves to
\* {text: '', error} with an error message.
C7_AbortRethrownOthersReturned ==
    (fn \in StreamingAdapters /\ thrown # NoException)
        => IF thrown.name = "AbortError"
           THEN outcome.kind = "rejected" /\ outcome.name = "AbortError"
           ELSE /\ outcome.kind = "resolved"
                /\ outcome.text = ""
                /\ Len(outcome.error) = 1 /\ outcome.error[1] # ""

\* the read of a stream aborted after fragments were delivered
C7_Witness ==
    /\ fn \in StreamingAdapters
    /\ thrown.name = "AbortError"
    /\ Len(sink) > 0
    /\ outcome = Rejected("AbortError")

\* C8: with the pool of the selected provider missing or empty, executeApiCall,
\* executeApiStream and the execute-api-call handler return {text: '', error: 'No
\* API key found for <provider>'}, fetch nothing, call no adapter and no sink.
C8_NoKeyNoRequest ==
    (/\ pc # "idle"
     /\ ~StartsWith(protocol, "http")
     /\ ~apiKeys.defined \/ apiKeys.keys = <<>>)
        => /\ outcome = Resolved("", <<"No API key found for " \o provider>>)
           /\ fetches = 0
           /\ calls = <<>>
           /\ sink = <<>>

\* executeApiStream dispatched with an empty array of keys
C8_Witness ==
    /\ entry = "callApi" /\ hasSink /\ ~StartsWith(protocol, "http")
    /\ apiKeys = Pool(<<>>)
    /\ provider = "openai"
    /\ outcome = Resolved("", <<"No API key found for openai">>)

\* C9: for every adapter, a response that is not ok and whose body is the envelope
\* {"error":{"message":"bad key"}} makes the dispatcher resolve to
\* {text: '', error: 'bad key'}.
C9_EnvelopeMessageReported ==
    (/\ pc = "settled"
     /\ http.status # 0 /\ ~http.ok
     /\ http.body = ErrorEnvelope
     /\ thrown.name # "AbortError")
        => outcome = Resolved("", <<"bad key">>)

\* C10: for every adapter, a response that is not ok, with a status text, and whose
\* body is not JSON makes the dispatcher resolve to {text: '', error: <status text>}.
C10_StatusTextFallback ==
    (/\ pc = "settled"
     /\ http.status # 0 /\ ~http.ok
     /\ http.statusText # ""
     /\ thrown.name # "AbortError"
     /\ ~JsonParse(http.body).ok)
        => outcome = Resolved("", <<http.statusText>>)

\* the fragments the parser of adapter a extracts from the units us, in their order
RECURSIVE FragmentsOf(_, _, _)
FragmentsOf(a, us, i) ==
    IF i > Len(us) THEN <<>>
    ELSE IF Parser(a, us[i]).text = "" THEN FragmentsOf(a, us, i + 1)
    ELSE <<Parser(a, us[i]).text>> \o FragmentsOf(a, us, i + 1)

\* the first place at or after from where u occurs in text, 0 when there is none
FirstAt(text, u, from) ==
    IF \E i \in from..(Len(text) + 1) : Sub(text, i, i + Len(u) - 1) = u
    THEN CHOOSE i \in from..(Len(text) + 1) :
            /\ Sub(text, i, i + Len(u) - 1) = u
            /\ \A j \in from..(i - 1) : Sub(text, j, j + Len(u) - 1) # u
    ELSE 0

\* the units us, from the i-th on, occur in text one after the other from `from` on
RECURSIVE OccurInOrder(_, _, _, _)
OccurInOrder(text, us, i, from) ==
    IF i > Len(us) THEN TRUE
    ELSE IF FirstAt(text, us[i], from) = 0 THEN FALSE
    ELSE OccurInOrder(text, us, i + 1, FirstAt(text, us[i], from) + Len(us[i]))

\* C11: at every point of a streaming session, for every chunking and each of the
\* three adapters, the units decoded so far lie in the byte stream in the order in
\* which they were decoded, and the sink has received exactly the fragments of
\* those units, in that order.
C11_FragmentsInStreamOrder ==
    /\ OccurInOrder(Decode("", stream).text, units, 1, 1)
    /\ sink = FragmentsOf(adapter, units, 1)

\* a stream cut byte by byte with text in several units, and one without
C11_Witness ==
    /\ Settled
    /\ delivery = "bytewise"
    /\ Len(sink) >= 2
    /\ Len(units) > Len(sink)

\* C12: at every point of a streaming session fullText is the concatenation of the
\* fragments handed to the sink so far, in delivery order, and a session that
\* resolves without an error resolves to that concatenation (the three streaming
\* adapters and the caller half of the relay).
C12_FullTextIsConcatOfSink ==
    /\ fullText = Concat(sink)
    /\ (hasSink /\ outcome.kind = "resolved" /\ outcome.error = <<>>)
          => outcome.text = Concat(sink)

\* a relay session that resolved after two chunks
C12_Witness ==
    /\ port = "disconnected"
    /\ sink = <<"a", "b">>
    /\ outcome = Resolved("ab", <<>>)

\* C13: a streaming session whose read has reached end of input has resolved with
\* {text: fullText}, and an OpenAI-style session that has decoded `data: [DONE]` has
\* resolved without waiting for another read, that is, also while the connection
\* stays open.
C13_ResolvesOnEndMarker ==
    /\ pc # "reading" => outcome = Resolved(fullText, <<>>)
    /\ (adapter = "openai" /\ sinkAtDone # -1) => outcome.kind = "resolved"

\* the chunks of the messages msgs from the i-th on, up to the first {done} or {error}
RECURSIVE ChunksBeforeTerminal(_, _)
ChunksBeforeTerminal(msgs, i) ==
    IF i > Len(msgs) \/ msgs[i].done \/ msgs[i].error # "" THEN <<>>
    ELSE IF msgs[i].chunk = "" THEN ChunksBeforeTerminal(msgs, i + 1)
    ELSE <<msgs[i].chunk>> \o ChunksBeforeTerminal(msgs, i + 1)

IsPrefix(a, b) == Len(a) <= Len(b) /\ a = SubSeq(b, 1, Len(a))

\* C14: a streaming callApi over the relay has opened its channel and posted exactly
\* one initiation message; the sink has received the chunks of the messages handled
\* so far, in arrival order, and never a chunk that was posted after the first
\* {done} or {error}.
C14_OneInitiationChunksInOrder ==
    pc = "relayStream"
        => /\ port # "none" /\ posted = 1
           /\ sink = ChunksBeforeTerminal(SubSeq(sent, 1, received), 1)
           /\ IsPrefix(sink, ChunksBeforeTerminal(sent, 1))

\* a chunk, {done}, and a chunk posted after it that the sink never saw
C14_Witness ==
    /\ pc = "relayStream"
    /\ Len(sent) = 3 /\ sent[1].chunk = "a" /\ sent[2].done /\ sent[3].chunk = "b"
    /\ received = 2
    /\ sink = <<"a">>

\* what executeApiStream returns when its adapter hands the sink the chunks of msgs
\* and then ends as the first terminal message of msgs says: by returning for
\* {done}, by throwing an Error with the message for {error}
LocalResult(msgs, terminal) ==
    IF terminal.done THEN Resolved(Concat(ChunksBeforeTerminal(msgs, 1)), <<>>)
    ELSE StreamCatch(Exception("Error", terminal.error))

\* C15: a relay session that has resolved has called the sink with the same
\* fragments, and resolved to the same {text, error}, as executeApiStream does
\* locally for the same fragments followed by the same terminal event.
C15_RelayEqualsLocal ==
    (pc = "relayStream" /\ outcome.kind = "resolved")
        => /\ sink = ChunksBeforeTerminal(sent, 1)
           /\ outcome = LocalResult(sent, sent[received])

\* C16: when the signal fires during a relay session the abort listener disconnects
\* the port and the pending promise rejects with AbortError; from then on no step
\* calls the sink or changes the outcome, whatever is posted to the session.
C16_AbortDisconnectsAndIgnores ==
    [][/\ (pc = "relayStream" /\ ~aborted /\ aborted')
            => /\ port' = "disconnected"
               /\ outcome.kind = "pending" => outcome' = Rejected("AbortError")
       /\ (pc = "relayStream" /\ listener /\ aborted /\ port = "disconnected")
            => (sink' = sink /\ fullText' = fullText /\ outcome' = outcome)]_vars

\* a session cancelled after one chunk, with messages posted that were never handled
C16_Witness ==
    /\ pc = "relayStream" /\ listener /\ aborted
    /\ abortPoint = "late"
    /\ outcome = Rejected("AbortError")
    /\ sink = <<"a">>
    /\ received = 1 /\ Len(sent) = 3

\* C17: a relay session goes from Idle (no port) to Streaming (port open, promise
\* pending) to one end state (port disconnected, promise settled): the promise
\* settles once and keeps its outcome through later aborts and messages, and the
\* port, once disconnected, stays disconnected.
C17_RelaySessionStateMachine ==
    [][/\ outcome.kind # "pending" => outcome' = outcome
       /\ port' # port => \/ port = "none" /\ port' = "open" /\ outcome'.kind = "pending"
                          \/ port \in {"open", "closed"} /\ port' = "disconnected"
                          \/ port = "open" /\ port' = "closed" /\ outcome' = outcome
       /\ pc' = "relayStream" => (port' = "disconnected" <=> outcome'.kind # "pending")]_vars

\* a session that ended with {done} and whose signal was raised afterwards
C17_Witness ==
    /\ pc = "relayStream" /\ listener
    /\ abortPoint = "settled"
    /\ port = "disconnected"
    /\ outcome = Resolved("a", <<>>)

\* C18: with several relay sessions open and their events interleaved in any order,
\* the sink of each session has received exactly the chunks dispatched on its own
\* port, its fullText is their concatenation, and a step of one session (a chunk, a
\* terminal message, a cancellation) leaves every other session as it was.
C18_SessionsIsolated ==
    [][\A i \in SessionIds :
          /\ sessions'[i].sink =
                ChunksBeforeTerminal(SubSeq(sessions'[i].sent, 1, sessions'[i].received), 1)
          /\ sessions'[i].fullText = Concat(sessions'[i].sink)
          /\ \A j \in SessionIds \ {i} :
                sessions'[i] # sessions[i] => sessions'[j] = sessions[j]]_vars

\* session 1 ended by {done} after its chunk, session 2 cancelled after its own
C18_Witness ==
    /\ sessions[1].sink = <<"chunk 1">> /\ sessions[1].outcome = Resolved("chunk 1", <<>>)
    /\ sessions[2].sink = <<"chunk 2">> /\ sessions[2].outcome = Rejected("AbortError")

\* C20: whatever the provider, a dispatcher that has a key calls exactly one adapter:
\* the Google one for 'google', the Anthropic one for 'anthropic', and an
\* OpenAI-compatible one for 'openai', 'openrouter' and every other value; the
\* streaming dispatcher calls the streaming adapters, executeApiCall and the Electron
\* handler their own non-streaming ones.
C20_ProviderMappingTotal ==
    (pc # "idle" /\ ~StartsWith(protocol, "http") /\ apiKeys.defined /\ apiKeys.keys # <<>>)
        => /\ Len(calls) = 1
           /\ Family(calls[1].fn) = CASE provider = "google"    -> "google"
                                      [] provider = "anthropic" -> "anthropic"
                                      [] OTHER                  -> "openai"
           /\ calls[1].fn \in
                 IF entry = "ipc" THEN {"ipcCallOpenAI", "ipcCallGoogle", "ipcCallAnthropic"}
                 ELSE IF hasSink THEN {"streamOpenAI", "streamGoogle", "streamAnthropic"}
                 ELSE {"callOpenAI", "callOpenRouter", "callGoogle", "callAnthropic"}

\* a custom provider dispatched by executeApiStream
C20_Witness ==
    /\ provider = "custom"
    /\ entry = "callApi" /\ hasSink
    /\ calls = <<[fn |-> "streamOpenAI", key |-> "k1"]>>


C22_KeyRotationOnQuota ==
    (pc = "settled" /\ http.status = 429 /\ thrown # NoException /\ thrown.name # "AbortError")
        => \A i \in 1..Len(apiKeys.keys) :
              \E j \in 1..Len(calls) : calls[j].key = apiKeys.keys[i]

\* the elements of a pool
KeysOf(pool) == {pool.keys[i] : i \in 1..Len(pool.keys)}

\* a dispatcher is called now
DispatchNow == CallApiStream \/ CallApiCall \/ IpcExecuteApiCall

(***************************************************************************)
(* C23: with a non-empty pool, floor(r * n) is an index of the pool for     *)
(* every r of [0, 1), so the key given to the adapter is an element of the  *)
(* pool of the selected provider; and whatever the earlier calls chose,     *)
(* every element of the pool can be the key of the call about to be made.   *)
(***************************************************************************)
C23_KeyFromPoolStateless ==
    /\ \A j \in 1..Len(calls) : calls[j].key \in KeysOf(apiKeys)
    /\ (pc = "idle" /\ ~NoKeys(apiKeys)) =>
          /\ RandomIndices(Len(apiKeys.keys)) \subseteq 0..(Len(apiKeys.keys) - 1)
          /\ \A k \in KeysOf(apiKeys) :
                ENABLED (DispatchNow /\ Len(calls') = 1 /\ calls'[1].key = k)

\* the second call in a row with a pool of two keys was given the key of the first
C23_Witness ==
    /\ pc = "fetching"
    /\ Len(apiKeys.keys) = 2
    /\ history = <<"k2">>
    /\ calls[1].key = "k2"

\* the catch block of a parser was taken: JSON.parse threw on the string it was
\* given, or the value was null and reading its property threw
Caught(jsonArg) ==
    /\ jsonArg # <<>>
    /\ ~JsonParse(jsonArg[1]).ok \/ IsNullish(JsonParse(jsonArg[1]).val)

Unparseable(a, unit) == Caught(Parser(a, unit).jsonArg)

\* the units of a whole text: its lines and its non-empty last piece for the
\* line-oriented adapters, its top-level objects for streamGoogle
UnitsOfText(a, text) ==
    IF a = "google" THEN TopLevelObjects(text)
    ELSE SelectSeq(SplitLines(text), LAMBDA line : line # "")

RECURSIVE WithoutUnparseable(_, _, _)
WithoutUnparseable(a, us, i) ==
    IF i > Len(us) THEN <<>>
    ELSE IF Unparseable(a, us[i]) THEN WithoutUnparseable(a, us, i + 1)
    ELSE <<us[i]>> \o WithoutUnparseable(a, us, i + 1)

\* the units us as a body of the wire format of a
RECURSIVE BodyOf(_, _, _)
BodyOf(a, us, i) ==
    IF a = "google"
    THEN (IF i = 1 THEN "[" ELSE "")
         \o (IF i > Len(us) THEN "]"
             ELSE us[i] \o (IF i < Len(us) THEN "," ELSE "") \o BodyOf(a, us, i + 1))
    ELSE IF i > Len(us) THEN "" ELSE us[i] \o "\n" \o BodyOf(a, us, i + 1)

(***************************************************************************)
(* C24: a unit that cannot be parsed never aborts a stream.  For each of    *)
(* the three streaming adapters and every chunking, the fragments delivered *)
(* are those of the same units with the unparseable ones removed, and the   *)
(* adapter returns their concatenation with no error.                       *)
(***************************************************************************)
C24_UnparseableUnitsSkipped ==
    Settled =>
        /\ sink = OneChunk(adapter,
                           BodyOf(adapter,
                                  WithoutUnparseable(adapter,
                                      UnitsOfText(adapter, Decode("", stream).text), 1),
                                  1)).sink
        /\ outcome = Resolved(Concat(sink), <<>>)

\* a stream with an unparseable unit between two units with text has given both texts
C24_Witness ==
    /\ Settled
    /\ \E i \in 2..(Len(units) - 1) : Unparseable(adapter, units[i])
    /\ sink = <<"x", "y">>
    /\ outcome = Resolved("xy", <<>>)

\* the complete units of the text received so far: the newline-terminated lines for
\* the line-oriented adapters, the closed top-level objects for streamGoogle
CompleteUnits(a, text) ==
    IF a = "google" THEN TopLevelObjects(text)
    ELSE SubSeq(SplitLines(text), 1, Len(SplitLines(text)) - 1)

RetainedAfterLastUnit(text, buf, us) ==
    /\ buf = Sub(text, Len(text) - Len(buf) + 1, Len(text))
    /\ IF us = <<>> THEN Len(buf) = Len(text)
       ELSE Sub(text, Len(text) - Len(buf) - Len(us[Len(us)]) + 1,
                Len(text) - Len(buf)) = us[Len(us)]

(***************************************************************************)
(* C26: in streamGoogle, after each chunk the buffer is exactly the         *)
(* received text after the closing brace of the last completed unit, and    *)
(* the units offered to the extractor are the top-level objects closed so   *)
(* far, each exactly once and in order: none dropped, none offered twice.   *)
(***************************************************************************)
C26_BufferRetentionExactlyOnce ==
    adapter = "google" =>
        /\ RetainedAfterLastUnit(Decode("", Sub(stream, 1, pos)).text, buffer, units)
        /\ units = TopLevelObjects(Decode("", Sub(stream, 1, pos)).text)

\* the newline-terminated lines of a text, and its unterminated last piece
TerminatedLines(text) == SubSeq(SplitLines(text), 1, Len(SplitLines(text)) - 1)
TailOf(text) == SplitLines(text)[Len(SplitLines(text))]

(***************************************************************************)
(* C27: readStream offers every newline-terminated line of the text         *)
(* received so far as one unit, in order, and keeps the unterminated last   *)
(* piece as the tail; when the input has ended, a non-empty tail has been   *)
(* offered exactly once as the final unit, and an empty tail has given no   *)
(* unit.                                                                    *)
(***************************************************************************)
C27_LinesForwardedTailFlushed ==
    /\ pc = "reading" =>
          /\ units = TerminatedLines(Decode("", Sub(stream, 1, pos)).text)
          /\ buffer = TailOf(Decode("", Sub(stream, 1, pos)).text)
    /\ Settled =>
          units = TerminatedLines(Decode("", stream).text)
                  \o (IF TailOf(Decode("", stream).text) # ""
                      THEN <<TailOf(Decode("", stream).text)>> ELSE <<>>)

\* a stream whose last `data:` line has no newline: the line was offered as the final
\* unit and its fragment was delivered
C27_Witness ==
    /\ Settled
    /\ delivery = "bytewise"
    /\ buffer # "" /\ StartsWith(buffer, "data: ")
    /\ units = Append(TerminatedLines(Decode("", stream).text), buffer)
    /\ Parser(adapter, buffer).text # ""
    /\ sink[Len(sink)] = Parser(adapter, buffer).text

\* what callApi has touched: the relay channel, the one-shot relay request, the
\* dispatcher with its adapters and the network
UsedChannel == port # "none" \/ posted > 0 \/ listener \/ received > 0
UsedRequest == sendMessages > 0
UsedDispatcher == calls # <<>> \/ fetches > 0 \/ thrown # NoException \/ http # NoResponse

(***************************************************************************)
(* C28: callApi takes exactly one of four paths, fixed by the protocol of   *)
(* the page and by whether a sink was given.  On a page (the protocol       *)
(* starts with 'http') it never runs a dispatcher or the network: with a    *)
(* sink it opens one 'stream_api' channel and posts one initiation message, *)
(* without one it sends one PROXY_API_CALL request and opens no channel.    *)
(* Elsewhere it never touches the relay: with a sink it runs                *)
(* executeApiStream, without one executeApiCall.                            *)
(***************************************************************************)
C28_FourPaths ==
    (entry = "callApi" /\ pc # "idle") =>
        IF StartsWith(protocol, "http")
        THEN /\ ~UsedDispatcher
             /\ IF hasSink
                THEN port # "none" /\ posted = 1 /\ ~UsedRequest /\ pc = "relayStream"
                ELSE sendMessages = 1 /\ ~UsedChannel /\ pc \in {"relayCall", "settled"}
        ELSE /\ ~UsedChannel /\ ~UsedRequest
             /\ pc \in {"fetching", "errBody", "okBody", "reading", "settled"}
             /\ \A j \in 1..Len(calls) :
                   calls[j].fn = IF hasSink THEN StreamAdapter(provider)
                                 ELSE CallAdapter(provider)
             /\ calls = <<>> => (NoKeys(apiKeys) /\ outcome.error = NoKeyResult(provider).error)

\* callApi without a sink on a page with keys configured: the reply to the one
\* PROXY_API_CALL request is its result and nothing else was touched
C28_Witness ==
    /\ entry = "callApi" /\ protocol = "https:" /\ ~hasSink
    /\ ~NoKeys(apiKeys)
    /\ pc = "settled"
    /\ sendMessages = 1
    /\ outcome = Resolved("Hello", <<>>)
    /\ ~UsedChannel /\ ~UsedDispatcher

\* what the caller of a dispatcher gets when an adapter has thrown
FailureSurfaced ==
    /\ thrown # NoException =>
          IF fn \in StreamingAdapters
          THEN IF thrown.name = "AbortError" THEN outcome = Rejected("AbortError")
               ELSE outcome = Resolved("", <<IF thrown.message # "" THEN thrown.message
                                             ELSE "Stream failed">>)
          ELSE outcome = Resolved("", <<IF thrown.message # "" THEN thrown.message
                                        ELSE "API call failed">>)
    /\ (calls # <<>> /\ outcome.kind = "rejected") =>
          (fn \in StreamingAdapters /\ thrown.name = "AbortError")
    /\ (calls # <<>> /\ outcome.kind = "resolved" /\ outcome.error # <<>>) =>
          (outcome.text = "" /\ outcome.error[1] # "")

(***************************************************************************)
(* C29: a failure of an adapter is surfaced once, as a value.               *)
(* executeApiCall and the handler never reject: they resolve to {text: '',  *)
(* error} with a non-empty error, 'API call failed' when the exception has  *)
(* no message.  executeApiStream rejects for AbortError only; the error it  *)
(* reports comes with the text '' also when fragments were delivered, and   *)
(* no step takes a fragment back from the sink or changes a settled result. *)
(***************************************************************************)
C29_FailureSurfacedOnce ==
    [][/\ FailureSurfaced'
       /\ IsPrefix(sink, sink')
       /\ Settled => outcome' = outcome]_vars

\* the read of a stream failed after a fragment was delivered: the error is reported
\* with an empty text and the sink keeps the fragment
C29_Witness ==
    /\ fn \in StreamingAdapters
    /\ thrown = Exception("TypeError", "network error")
    /\ sink = <<"Hi">>
    /\ outcome = Resolved("", <<"network error">>)

\* this step dispatches a message with a truthy done or error field to the listener
TerminalMessageStep ==
    /\ received' = received + 1
    /\ sent[received'].done \/ sent[received'].error # ""

\* this step is the abort event, fired with the listener of callApi registered
AbortEventStep == listener /\ ~aborted /\ aborted'

(***************************************************************************)
(* C30: a streaming session over the relay settles if and only if a message *)
(* with a truthy done field or a truthy error field is dispatched to it, or *)
(* the abort event fires with its listener registered.  No other step       *)
(* settles it: a message with neither field truthy (an empty error string   *)
(* included) is ignored, and when the other end closes the channel the      *)
(* promise stays as it is, pending for good unless the signal is aborted.   *)
(***************************************************************************)
C30_SettlesIffTerminalEvent ==
    [][(pc = "relayStream" /\ outcome.kind = "pending")
          => /\ outcome'.kind # "pending" <=> (TerminalMessageStep \/ AbortEventStep)
             /\ port' = "closed" => outcome'.kind = "pending"]_vars

\* the other end closed the channel after a chunk and a message with empty fields and
\* with no terminal message: the session is still pending
C30_Witness ==
    /\ pc = "relayStream"
    /\ port = "closed"
    /\ outcome.kind = "pending"
    /\ sent = <<Message(FALSE, "", "a"), Message(FALSE, "", "")>>
    /\ received = 2
    /\ sink = <<"a">>
=============================================================================
